---- MODULE Spec2Model ----
(***************************************************************************)
(* Verification model of the volunteer route optimisation pipeline and the *)
(* volunteer-to-task assignment (backend/routes/volunteer_routes.py), of   *)
(* the donor-NGO match score and the /matching handler                     *)
(* (backend/routes/geo_routes.py) and of the location directory lookup     *)
(* (backend/utils/firebase_helpers.py) and of the donation handlers        *)
(* (backend/routes/donation_routes.py).                                    *)
(*                                                                         *)
(* Specifications: Spec (POST /optimize), SpecSolver (the solver functions *)
(* and the route metrics), SpecMatch (calculate_match_score), SpecMatching *)
(* (POST /matching), SpecEfficiency (calculate_route_efficiency),          *)
(* SpecAssign (solve_assignment_problem) and SpecDonation (create, claim   *)
(* and update of donations).  The variables of the components a            *)
(* specification does not run stay at their initial values.                *)
(*                                                                         *)
(* Conventions.                                                            *)
(*  - Python lists are sequences; Python indices are 0-based, so the       *)
(*    element list[i] is seq[i+1].  Stop indices stored in routes keep     *)
(*    their Python value (0 is the start location).                        *)
(*  - Optional[float] is a sequence of length at most one: <<>> is None.   *)
(*  - Locations lie on one meridian (longitude 0) at whole degrees of      *)
(*    latitude, where the Haversine distance is R * |dlat| in radians;     *)
(*    distances are kept in whole kilometres.  Every entry of a distance   *)
(*    matrix is nevertheless a Python float, which matters to the          *)
(*    formatting in calculate_arrival_time.                                *)
(*  - solve_routing_problem never reads optimization_type or             *)
(*    max_time_hours, so the request carries neither.                      *)
(*  - The OR-Tools library is outside the repository.  Its behaviour is    *)
(*    the environment variable ortools: the call sequence raises, the      *)
(*    solver returns None, or the solver returns a solution object (only   *)
(*    when the registered capacity dimension is satisfiable).              *)
(***************************************************************************)
EXTENDS Integers, Sequences, FiniteSets, TLC

VARIABLES
    pc,               \* position of the request being processed
    entry,            \* "handler": POST /optimize; "solver": direct call of the solver functions;
                      \* "match", "matching", "efficiency", "assign": the other components
    locations,        \* request.locations
    vehicle_capacity, \* request.vehicle_capacity
    ortools,          \* behaviour of the OR-Tools library in this deployment
    distance_matrix,  \* create_distance_matrix result (<<>> before it is built)
    solution,         \* dict returned by solve_routing_problem
    route,            \* create_mock_solution: local route
    unvisited,        \* create_mock_solution: local unvisited
    current,          \* create_mock_solution: local current
    route_indices,    \* generate_optimized_route: local route_indices
    optimized_route,  \* generate_optimized_route result
    response,         \* what the caller receives
    primary_calls,    \* number of SolveWithParameters attempts for this request
    mock_calls,       \* number of create_mock_solution calls for this request
    run,              \* 1: first submission, 2: identical resubmission
    first_route,      \* route_indices of the first submission
    match_args,       \* arguments of the last calculate_match_score call
    match_score,      \* its result
    users,            \* the 'users' collection of the location directory
    directory,        \* "up" or "down": whether the Firestore stream can be read
    matching_request, \* MatchingRequest (quantity, urgency; the donor is at latitude 0)
    fetch_calls,      \* number of get_nearby_users calls for this request
    ngo_users,        \* find_optimal_matches: local ngo_users
    ngo_i,            \* find_optimal_matches: position of the loop over ngo_users
    matches,          \* find_optimal_matches: local matches
    matching_response,\* what the caller of /matching receives
    efficiency_args,  \* arguments of the last calculate_route_efficiency call
    efficiency,       \* its result
    volunteers,       \* solve_assignment_problem: the volunteers
    tasks,            \* solve_assignment_problem: the tasks
    matrix,           \* solve_assignment_problem: the score matrix
    volunteer_i,      \* solve_assignment_problem: position of the loop over volunteers
    used_tasks,       \* solve_assignment_problem: local used_tasks
    assignments,      \* solve_assignment_problem: local assignments
    assignment_response, \* what assign_volunteers_to_tasks returns
    donations,        \* the 'donations' collection: document i has the id i
    deliveries,       \* the 'deliveries' collection, in order of creation
    clock,            \* datetime.now(), counted in handler calls
    calls,            \* per caller: the claim_donation call it has in flight, if any
    donation_response \* the response of the last donation call that ended

vars == <<pc, entry, locations, vehicle_capacity, ortools, distance_matrix,
          solution, route, unvisited, current, route_indices,
          optimized_route, response, primary_calls, mock_calls, run, first_route,
          match_args, match_score, users, directory, matching_request,
          fetch_calls, ngo_users, ngo_i, matches, matching_response,
          efficiency_args, efficiency, volunteers, tasks, matrix, volunteer_i,
          used_tasks, assignments, assignment_response, donations, deliveries,
          clock, calls, donation_response>>

routeVars == <<entry, locations, vehicle_capacity, ortools, distance_matrix,
               solution, route, unvisited, current, route_indices,
               optimized_route, response, primary_calls, mock_calls, run, first_route>>

matchVars == <<match_args, match_score>>

matchingVars == <<users, directory, matching_request, fetch_calls, ngo_users,
                  ngo_i, matches, matching_response>>

efficiencyVars == <<efficiency_args, efficiency>>

assignVars == <<volunteers, tasks, matrix, volunteer_i, used_tasks, assignments,
                assignment_response>>

donationVars == <<donations, deliveries, clock, calls, donation_response>>

\* what the actions of one component leave alone
exceptRoute == <<matchVars, matchingVars, efficiencyVars, assignVars, donationVars>>

exceptMatch == <<routeVars, matchingVars, efficiencyVars, assignVars, donationVars>>

exceptMatching == <<routeVars, matchVars, efficiencyVars, assignVars, donationVars>>

exceptEfficiency == <<routeVars, matchVars, matchingVars, assignVars, donationVars>>

exceptAssign == <<routeVars, matchVars, matchingVars, efficiencyVars, donationVars>>

exceptDonation == <<routeVars, matchVars, matchingVars, efficiencyVars, assignVars>>

-----------------------------------------------------------------------------
(* Bounds and input domains *)

MaxStops == 3

Lats == {-1, 1, 2}

StopCapacities == {<<>>, <<50>>}

Priorities == {1, 5}

VehicleCapacities == {-1, 150}

OrToolsBehaviours == {"raises", "none", "solution"}

Stops == [latitude : Lats, capacity : StopCapacities, priority : Priorities]

start_location == [latitude |-> 0, capacity |-> <<>>, priority |-> 1]

SeqsUpTo(S, n) == UNION {[1..k -> S] : k \in 0..n}

-----------------------------------------------------------------------------
(* Helpers for Python lists *)

Min(a, b) == IF a <= b THEN a ELSE b

Max(a, b) == IF a >= b THEN a ELSE b

Abs(a) == IF a < 0 THEN -a ELSE a

At(list, i) == list[i + 1]

RECURSIVE Sum(_)
Sum(list) == IF list = <<>> THEN 0 ELSE Head(list) + Sum(Tail(list))

Range0(n) == [k \in 1..n |-> k - 1]

\* list.sort(key=...) is stable; reverse=True keeps equal keys in list order
SortByKeys_Ascending(s, keys, reverse) ==
    LET before(j, i) == keys[j] < keys[i] \/ (keys[j] = keys[i] /\ j < i)
        rank(i) == Cardinality({j \in 1..Len(s) : before(j, i)}) + 1
    IN  [r \in 1..Len(s) |-> s[CHOOSE i \in 1..Len(s) : rank(i) = r]]

\* reverse=True done as an ascending sort followed by list.reverse()
SortByKeys_Reversed(s, keys, reverse) ==
    LET before(j, i) == keys[j] < keys[i] \/ (keys[j] = keys[i] /\ j < i)
        rank(i) == Cardinality({j \in 1..Len(s) : before(j, i)}) + 1
        ascending == [r \in 1..Len(s) |-> s[CHOOSE i \in 1..Len(s) : rank(i) = r]]
    IN  IF reverse THEN [r \in 1..Len(s) |-> ascending[Len(s) + 1 - r]]
        ELSE ascending

SortByKeys(s, keys, reverse) ==
    LET before(j, i) ==
            \/ (IF reverse THEN keys[j] > keys[i] ELSE keys[j] < keys[i])
            \/ (keys[j] = keys[i] /\ j < i)
        rank(i) == Cardinality({j \in 1..Len(s) : before(j, i)}) + 1
    IN  [r \in 1..Len(s) |-> s[CHOOSE i \in 1..Len(s) : rank(i) = r]]

ListRemove(list, x) ==
    LET i == CHOOSE k \in 1..Len(list) :
                 list[k] = x /\ \A j \in 1..(k - 1) : list[j] # x
    IN  SubSeq(list, 1, i - 1) \o SubSeq(list, i + 1, Len(list))

-----------------------------------------------------------------------------
(* Geodesy and distance matrix *)

R == 6371

KmPerDegree == (R * 355) \div (113 * 180)

calculate_distance(lat1, lat2) == KmPerDegree * Abs(lat2 - lat1)

\* only the entries above the diagonal are filled
create_distance_matrix_UpperOnly(locs, start) ==
    LET all_locations == <<start>> \o locs
        n == Len(all_locations)
    IN  [i \in 1..n |-> [j \in 1..n |->
            IF i < j
            THEN calculate_distance(all_locations[i].latitude,
                                    all_locations[j].latitude)
            ELSE 0]]

create_distance_matrix(locs, start) ==
    LET all_locations == <<start>> \o locs
        n == Len(all_locations)
    IN  [i \in 1..n |-> [j \in 1..n |->
            IF i # j
            THEN calculate_distance(all_locations[i].latitude,
                                    all_locations[j].latitude)
            ELSE 0]]

-----------------------------------------------------------------------------
(* solve_routing_problem: the OR-Tools attempt *)

PyOr(opt, default) == IF opt = <<>> \/ opt[1] = 0 THEN default ELSE opt[1]

DefaultDemand == 100

demand_callback(locs, from_node) ==
    IF from_node = 0 THEN 0 ELSE PyOr(At(locs, from_node - 1).capacity, DefaultDemand)

\* The 'Capacity' dimension: slack 0, start cumul fixed to zero, every cumul
\* within [0, int(vehicle_capacity)].  One vehicle has to visit every node,
\* so a solution exists only if the demands of all nodes fit.
CapacityDimension_NotAdded(locs, capacity) == TRUE

CapacityDimension(locs, capacity) ==
    /\ 0 <= capacity
    /\ Sum([k \in 1..(Len(locs) + 1) |-> demand_callback(locs, k - 1)]) <= capacity

\* What routing.SolveWithParameters does in this deployment.
SolverOutcome(locs, capacity, lib) ==
    IF lib = "solution" /\ ~CapacityDimension(locs, capacity) THEN "none" ELSE lib

OrToolsSolution ==
    [solution |-> "Assignment", routing |-> "RoutingModel",
     manager |-> "RoutingIndexManager", objective_value |-> 0]

\* except Exception as e: logger.warning(...); return create_mock_solution(...)
SolverFailure_Reraised(outcome) == [fallback |-> FALSE, raised |-> "SolverError"]

SolverFailure(outcome) == [fallback |-> TRUE, raised |-> ""]

-----------------------------------------------------------------------------
(* create_mock_solution: greedy nearest neighbour *)

\* min(unvisited, key=...) returns the first element of the list whose key is minimal
min_key_AnyMinimal(list, m, cur) ==
    {list[i] : i \in {k \in 1..Len(list) :
        \A j \in 1..Len(list) : At(At(m, cur), list[k]) <= At(At(m, cur), list[j])}}

\* on a tie the last minimal element wins
min_key_LastMinimal(list, m, cur) ==
    {list[i] : i \in {k \in 1..Len(list) :
        /\ \A j \in 1..Len(list) : At(At(m, cur), list[k]) <= At(At(m, cur), list[j])
        /\ \A j \in (k + 1)..Len(list) : At(At(m, cur), list[j]) > At(At(m, cur), list[k])}}

\* the head of the list, whatever the distances
min_key_First(list, m, cur) == {list[1]}

min_key(list, m, cur) ==
    {list[i] : i \in {k \in 1..Len(list) :
        /\ \A j \in 1..Len(list) : At(At(m, cur), list[k]) <= At(At(m, cur), list[j])
        /\ \A j \in 1..(k - 1) : At(At(m, cur), list[j]) > At(At(m, cur), list[k])}}

RouteLength(m, r) ==
    Sum([i \in 1..(Len(r) - 1) |-> At(At(m, r[i]), r[i + 1])])

-----------------------------------------------------------------------------
(* generate_optimized_route and the route metrics *)

extract_route_from_solution(sol) ==
    Range0(Len(IF "locations" \in DOMAIN sol THEN sol.locations ELSE <<>>) + 1)

\* total_minutes is the int 0 until a matrix entry (a float) is added to it;
\* "{:02d}" accepts an int and raises ValueError on a float.
calculate_arrival_time(rt, index, m) ==
    IF index = 0 THEN [error |-> "", hour |-> 9, minute |-> 0]
    ELSE LET legs == {i \in 0..(index - 1) : i < Len(rt) - 1}
             leg(i) == IF i + 1 < Len(m) THEN At(At(m, i), i + 1) ELSE 0
             is_float == \E i \in legs : i + 1 < Len(m)
             total_minutes == Sum([k \in 1..index |->
                                  IF (k - 1) \in legs THEN leg(k - 1) * 2 ELSE 0])
         IN  IF is_float
             THEN [error |-> "ValueError", hour |-> 0, minute |-> 0]
             ELSE [error |-> "", hour |-> 9 + (total_minutes \div 60),
                   minute |-> total_minutes % 60]

RECURSIVE BuildItinerary(_, _, _, _, _)
BuildItinerary(indices, i, acc, all_locations, m) ==
    IF i >= Len(indices) THEN [error |-> "", route |-> acc]
    ELSE LET location_index == At(indices, i)
         IN  IF location_index < Len(all_locations)
             THEN LET arrival_time == calculate_arrival_time(acc, i, m)
                      location == At(all_locations, location_index)
                  IN  IF arrival_time.error # ""
                      THEN [error |-> arrival_time.error, route |-> acc]
                      ELSE BuildItinerary(indices, i + 1,
                              Append(acc, [sequence |-> i,
                                           location_id |-> location_index,
                                           latitude |-> location.latitude,
                                           arrival_time |-> <<arrival_time.hour, arrival_time.minute>>,
                                           priority |-> location.priority,
                                           capacity |-> location.capacity]),
                              all_locations, m)
             ELSE BuildItinerary(indices, i + 1, acc, all_locations, m)

RouteIndicesOf(sol) ==
    IF "route" \in DOMAIN sol THEN sol.route ELSE extract_route_from_solution(sol)

generate_optimized_route(sol, locs, start, m) ==
    BuildItinerary(RouteIndicesOf(sol), 0, <<>>, <<start>> \o locs, m)

calculate_total_distance(rt, m) ==
    Sum([k \in 1..Max(Len(rt) - 1, 0) |->
            IF k < Len(m) THEN At(At(m, k - 1), k) ELSE 0])

AssumedSpeedKmh == 30

\* total_distance / 30.0, kept as the fraction <<numerator, denominator>>
calculate_total_time(rt, m) == <<calculate_total_distance(rt, m), AssumedSpeedKmh>>

\* fuel 0.1/km + time 15/h + maintenance 0.05/km, in hundredths:
\* 10*d + 1500*d/30 + 5*d
calculate_total_cost(distance) ==
    <<10 * distance + (1500 \div AssumedSpeedKmh) * distance + 5 * distance, 100>>

\* the efficiency score as the fraction num / den; time is <<numerator, denominator>>
clamp_efficiency_LowerOnly(num, den) == Max(0, num)

\* return min(100, max(0, efficiency))
clamp_efficiency(num, den) == Min(100 * den, Max(0, num))

calculate_route_efficiency(rt, distance, time) ==
    IF Len(rt) = 0
    THEN [error |-> "ZeroDivisionError", num |-> 0, den |-> 1]
    ELSE LET n == Len(rt)
             priority_sum == Sum([i \in 1..n |-> rt[i].priority])
             distance_efficiency == Max(0, 100 - distance * 2)
             \* max(0, 100 - time * 10) over the denominator time[2]
             time_efficiency == Max(0, 100 * time[2] - 10 * time[1])
             \* priority_sum / n * 20 + distance_efficiency * 0.4
             \* + time_efficiency * 0.4 over the denominator 5 * n * time[2]
             den == 5 * n * time[2]
             raw == 100 * priority_sum * time[2]
                      + 2 * distance_efficiency * n * time[2]
                      + 2 * time_efficiency * n
         IN  [error |-> "", num |-> clamp_efficiency(raw, den), den |-> den]

-----------------------------------------------------------------------------
(* optimize_volunteer_route *)

NoSolution == [pending |-> TRUE]

NoResponse == [status_code |-> 0, body |-> [pending |-> TRUE]]

\* except Exception as e: raise HTTPException(500, f"Route optimization failed: {e}")
HandlerError(exc) ==
    [status_code |-> 500, body |-> [detail |-> exc]]

ValidationError == "HTTPException(400): At least 2 locations required"

\* the first recommendation by its kind, then the markers that follow;
\* eff (efficiency) is the fraction num / den, time the fraction <<num, den>>
generate_route_recommendations(rt, distance, time, eff) ==
    (IF eff.num > 80 * eff.den THEN <<"Excellent route efficiency!">>
     ELSE IF eff.num > 60 * eff.den THEN <<"Good route efficiency">>
     ELSE <<"Consider route optimization">>)
    \o (IF distance > 50 THEN <<"Long route detected">> ELSE <<>>)
    \o (IF time[1] > 6 * time[2] THEN <<"Long route time">> ELSE <<>>)
    \o (IF \E k \in 1..Len(rt) : rt[k].priority >= 4
        THEN <<"Route includes high-priority locations">> ELSE <<>>)

\* list.sort(...) orders the list itself
sorted_InPlace(list, keys, reverse) ==
    [result |-> SortByKeys(list, keys, reverse),
     list |-> SortByKeys(list, keys, reverse)]

\* sorted(list, key=..., reverse=...) builds a new list and leaves list alone
sorted(list, keys, reverse) ==
    [result |-> SortByKeys(list, keys, reverse), list |-> list]

\* list.index(x): the 0-based position of the first element equal to x
list_index(list, x) ==
    (CHOOSE k \in 1..Len(list) :
        list[k] = x /\ \A j \in 1..(k - 1) : list[j] # x) - 1

distance_key_NoOffset(locs, m, x) == At(At(m, 0), list_index(locs, x))

\* key=lambda x: distance_matrix[0][locations.index(x) + 1]
distance_key(locs, m, x) == At(At(m, 0), list_index(locs, x) + 1)

\* an entry of an alternative route (id, name and type are copied along with
\* the coordinates and play no part)
AlternativeEntry(location) == [latitude |-> location.latitude]

generate_route_for_locations(locs, start) ==
    <<AlternativeEntry(start)>> \o [k \in 1..Len(locs) |-> AlternativeEntry(locs[k])]

\* the two alternatives, and the caller's list as the calls leave it
generate_alternative_routes(locs, start, m) ==
    LET priority_sorted == sorted(locs, [k \in 1..Len(locs) |-> locs[k].priority], TRUE)
        locs1 == priority_sorted.list
        distance_sorted == sorted(locs1,
                                  [k \in 1..Len(locs1) |-> distance_key(locs1, m, locs1[k])],
                                  FALSE)
    IN  [alternatives |->
             <<[name |-> "Priority-based Route",
                route |-> generate_route_for_locations(priority_sorted.result, start)],
               [name |-> "Shortest Distance Route",
                route |-> generate_route_for_locations(distance_sorted.result, start)]>>,
         locations |-> distance_sorted.list]

RouteOptimizationResponse(opt_route, m, alternative_routes) ==
    LET total_distance == calculate_total_distance(opt_route, m)
        total_time == calculate_total_time(opt_route, m)
        route_efficiency == calculate_route_efficiency(opt_route, total_distance,
                                                       total_time)
    IN  [status_code |-> 200,
         body |-> [optimized_route |-> opt_route,
                   total_distance_km |-> total_distance,
                   total_time_hours |-> total_time,
                   total_cost |-> calculate_total_cost(total_distance),
                   route_efficiency |-> route_efficiency,
                   recommendations |->
                       generate_route_recommendations(opt_route, total_distance,
                                                      total_time, route_efficiency),
                   alternative_routes |-> alternative_routes]]

ValidateReject ==
    /\ pc = "validate"
    /\ Len(locations) < 2
    /\ response' = HandlerError(ValidationError)
    /\ pc' = "done"
    /\ UNCHANGED <<entry, locations, vehicle_capacity, ortools, distance_matrix,
                   solution, route, unvisited, current, route_indices,
                   optimized_route, primary_calls, mock_calls, run, first_route>>
    /\ UNCHANGED exceptRoute

ValidatePass ==
    /\ pc = "validate"
    /\ ~(Len(locations) < 2)
    /\ pc' = "matrix"
    /\ UNCHANGED routeVars
    /\ UNCHANGED exceptRoute

CreateDistanceMatrix ==
    /\ pc = "matrix"
    /\ distance_matrix' = create_distance_matrix(locations, start_location)
    /\ pc' = "solve"
    /\ UNCHANGED <<entry, locations, vehicle_capacity, ortools, solution, route,
                   unvisited, current, route_indices, optimized_route, response,
                   primary_calls, mock_calls, run, first_route>>
    /\ UNCHANGED exceptRoute

\* solve_routing_problem up to the point where it returns the OR-Tools
\* solution or enters create_mock_solution
SolvePrimary ==
    /\ pc = "solve"
    /\ primary_calls' = primary_calls + 1
    /\ LET outcome == SolverOutcome(locations, vehicle_capacity, ortools)
       IN  IF outcome = "solution"
           THEN /\ solution' = OrToolsSolution
                /\ pc' = "solved"
                /\ UNCHANGED <<route, unvisited, current, mock_calls, response>>
           ELSE IF SolverFailure(outcome).fallback
           THEN /\ mock_calls' = mock_calls + 1
                /\ route' = <<0>>
                /\ unvisited' = [k \in 1..Len(locations) |-> k]
                /\ current' = 0
                /\ pc' = "mock"
                /\ UNCHANGED <<solution, response>>
           ELSE /\ response' = HandlerError(SolverFailure(outcome).raised)
                /\ pc' = "done"
                /\ UNCHANGED <<solution, route, unvisited, current, mock_calls>>
    /\ UNCHANGED <<entry, locations, vehicle_capacity, ortools, distance_matrix,
                   route_indices, optimized_route, run, first_route>>
    /\ UNCHANGED exceptRoute

\* one iteration of "while unvisited"
MockStep ==
    /\ pc = "mock"
    /\ unvisited # <<>>
    /\ \E nearest \in min_key(unvisited, distance_matrix, current) :
          /\ route' = Append(route, nearest)
          /\ unvisited' = ListRemove(unvisited, nearest)
          /\ current' = nearest
    /\ UNCHANGED <<pc, entry, locations, vehicle_capacity, ortools, distance_matrix,
                   solution, route_indices, optimized_route, response,
                   primary_calls, mock_calls, run, first_route>>
    /\ UNCHANGED exceptRoute

\* loop exit, route.append(0), return
MockReturn ==
    /\ pc = "mock"
    /\ unvisited = <<>>
    /\ route' = Append(route, 0)
    /\ solution' = [route |-> route',
                    objective_value |-> RouteLength(distance_matrix, route')]
    /\ pc' = "solved"
    /\ UNCHANGED <<entry, locations, vehicle_capacity, ortools, distance_matrix,
                   unvisited, current, route_indices, optimized_route, response,
                   primary_calls, mock_calls, run, first_route>>
    /\ UNCHANGED exceptRoute

GenerateOptimizedRoute ==
    /\ pc = "solved"
    /\ entry = "handler"
    /\ route_indices' = RouteIndicesOf(solution)
    /\ LET result == generate_optimized_route(solution, locations, start_location,
                                              distance_matrix)
       IN  IF result.error # ""
           THEN /\ response' = HandlerError(result.error)
                /\ optimized_route' = optimized_route
                /\ pc' = "done"
           ELSE /\ optimized_route' = result.route
                /\ response' = response
                /\ pc' = "metrics"
    /\ UNCHANGED <<entry, locations, vehicle_capacity, ortools, distance_matrix,
                   solution, route, unvisited, current, primary_calls, mock_calls,
                   run, first_route>>
    /\ UNCHANGED exceptRoute

Respond ==
    /\ pc = "metrics"
    /\ LET alternative_routes ==
               generate_alternative_routes(locations, start_location, distance_matrix)
       IN  /\ response' = RouteOptimizationResponse(optimized_route, distance_matrix,
                                                    alternative_routes.alternatives)
           /\ locations' = alternative_routes.locations
    /\ pc' = "done"
    /\ UNCHANGED <<entry, vehicle_capacity, ortools, distance_matrix,
                   solution, route, unvisited, current, route_indices,
                   optimized_route, primary_calls, mock_calls, run, first_route>>
    /\ UNCHANGED exceptRoute

\* direct use of the solver functions: the route indices of the solution and
\* calculate_total_distance over a route with one entry per index
MeasureRoute ==
    /\ pc = "solved"
    /\ entry = "solver"
    /\ route_indices' = RouteIndicesOf(solution)
    /\ response' = [status_code |-> 0,
                    body |-> [total_distance |->
                                  calculate_total_distance(route_indices', distance_matrix),
                              \* what generate_optimized_route asks for at each
                              \* position: an itinerary of i entries and index i
                              arrival_times |->
                                  [k \in 1..Len(route_indices') |->
                                      calculate_arrival_time(Range0(k - 1), k - 1,
                                                             distance_matrix)]]]
    /\ pc' = "done"
    /\ UNCHANGED <<entry, locations, vehicle_capacity, ortools, distance_matrix,
                   solution, route, unvisited, current, optimized_route,
                   primary_calls, mock_calls, run, first_route>>
    /\ UNCHANGED exceptRoute

\* the same input is submitted a second time
Resubmit ==
    /\ pc = "done"
    /\ run = 1
    /\ run' = 2
    /\ first_route' = route_indices
    /\ pc' = IF entry = "handler" THEN "validate" ELSE "solve"
    /\ distance_matrix' = IF entry = "handler" THEN <<>> ELSE distance_matrix
    /\ solution' = NoSolution
    /\ route' = <<>>
    /\ unvisited' = <<>>
    /\ current' = 0
    /\ route_indices' = <<>>
    /\ optimized_route' = <<>>
    /\ response' = NoResponse
    /\ primary_calls' = 0
    /\ mock_calls' = 0
    /\ UNCHANGED <<entry, locations, vehicle_capacity, ortools>>
    /\ UNCHANGED exceptRoute

NoMatch == [pending |-> TRUE]

\* the components that take no part in a specification stay as constructed
IdleMatching ==
    /\ users = <<>>
    /\ directory = "up"
    /\ matching_request = NoMatch
    /\ fetch_calls = 0
    /\ ngo_users = <<>>
    /\ ngo_i = 0
    /\ matches = <<>>
    /\ matching_response = NoResponse

IdleEfficiency ==
    /\ efficiency_args = NoMatch
    /\ efficiency = NoMatch

IdleAssign ==
    /\ volunteers = <<>>
    /\ tasks = <<>>
    /\ matrix = <<>>
    /\ volunteer_i = 0
    /\ used_tasks = {}
    /\ assignments = <<>>
    /\ assignment_response = NoResponse

IdleDonation ==
    /\ donations = <<>>
    /\ deliveries = <<>>
    /\ clock = 0
    /\ calls = <<>>
    /\ donation_response = NoResponse

InitRequest(e) ==
    /\ entry = e
    /\ locations \in SeqsUpTo(Stops, MaxStops)
    /\ vehicle_capacity \in VehicleCapacities
    /\ ortools \in OrToolsBehaviours
    /\ solution = NoSolution
    /\ route = <<>>
    /\ unvisited = <<>>
    /\ current = 0
    /\ route_indices = <<>>
    /\ optimized_route = <<>>
    /\ response = NoResponse
    /\ primary_calls = 0
    /\ mock_calls = 0
    /\ run = 1
    /\ first_route = <<>>
    /\ match_args = NoMatch
    /\ match_score = NoMatch
    /\ IdleMatching
    /\ IdleEfficiency
    /\ IdleAssign
    /\ IdleDonation

Init ==
    /\ InitRequest("handler")
    /\ pc = "validate"
    /\ distance_matrix = <<>>

Next ==
    \/ ValidateReject
    \/ ValidatePass
    \/ CreateDistanceMatrix
    \/ SolvePrimary
    \/ MockStep
    \/ MockReturn
    \/ GenerateOptimizedRoute
    \/ Respond

Spec == Init /\ [][Next]_vars

InitSolver ==
    /\ InitRequest("solver")
    /\ pc = "solve"
    /\ distance_matrix = create_distance_matrix(locations, start_location)

NextSolver ==
    \/ SolvePrimary
    \/ MockStep
    \/ MockReturn
    \/ MeasureRoute
    \/ Resubmit

SpecSolver == InitSolver /\ [][NextSolver]_vars

-----------------------------------------------------------------------------
(* calculate_match_score (geo_routes.py), in exact rational arithmetic:    *)
(* a score is the fraction num / den with den > 0                          *)

Distances == {0, 10, 50, 60}

Quantities == {-100, 0, 100, 300}

Urgencies == {"low", "normal", "high", "urgent", "unknown"}

\* ngo records: <<>> is an NGO document without a 'capacity' key
NgoCapacities == {<<>>, <<-50>>, <<0>>, <<100>>, <<200>>}

DefaultNgoCapacity == 100

\* urgency_multipliers.get(urgency, 1.0), in tenths
urgency_multiplier(urgency) ==
    CASE urgency = "low" -> 8
      [] urgency = "normal" -> 10
      [] urgency = "high" -> 12
      [] urgency = "urgent" -> 15
      [] OTHER -> 10

\* return min(100, match_score)
final_score(num, den) == Min(100 * den, num)

calculate_match_score(distance, quantity, urgency, ngo) ==
    LET distance_score == Max(0, 100 - (distance * 2))
        capacity == IF ngo.capacity = <<>> THEN DefaultNgoCapacity ELSE ngo.capacity[1]
    IN  IF capacity = 0
        THEN [error |-> "ZeroDivisionError", num |-> 0, den |-> 1]
        ELSE LET den == Abs(capacity)
                 \* (quantity / capacity) * 100 over the denominator |capacity|
                 ratio == IF capacity > 0 THEN quantity * 100 ELSE (0 - quantity) * 100
                 quantity_score == Min(100 * den, ratio)
                 \* (distance_score * 0.4 + quantity_score * 0.6) * multiplier
                 \* over the denominator 100 * |capacity|
                 match == (distance_score * 4 * den + quantity_score * 6)
                              * urgency_multiplier(urgency)
             IN  [error |-> "", num |-> final_score(match, 100 * den),
                  den |-> 100 * den]

CalculateMatchScore ==
    /\ pc = "match"
    /\ \E distance \in Distances, quantity \in Quantities,
          urgency \in Urgencies, capacity \in NgoCapacities :
          /\ match_args' = [distance |-> distance, quantity |-> quantity,
                            urgency |-> urgency, ngo |-> [capacity |-> capacity]]
          /\ match_score' = calculate_match_score(distance, quantity, urgency,
                                                  [capacity |-> capacity])
    /\ pc' = "scored"
    /\ UNCHANGED exceptMatch

NextCandidate ==
    /\ pc = "scored"
    /\ pc' = "match"
    /\ match_args' = NoMatch
    /\ match_score' = NoMatch
    /\ UNCHANGED exceptMatch

IdleRoute ==
    /\ locations = <<>>
    /\ vehicle_capacity = 0
    /\ ortools = "raises"
    /\ distance_matrix = <<>>
    /\ solution = NoSolution
    /\ route = <<>>
    /\ unvisited = <<>>
    /\ current = 0
    /\ route_indices = <<>>
    /\ optimized_route = <<>>
    /\ response = NoResponse
    /\ primary_calls = 0
    /\ mock_calls = 0
    /\ run = 1
    /\ first_route = <<>>

InitMatch ==
    /\ pc = "match"
    /\ entry = "match"
    /\ IdleRoute
    /\ match_args = NoMatch
    /\ match_score = NoMatch
    /\ IdleMatching
    /\ IdleEfficiency
    /\ IdleAssign
    /\ IdleDonation

NextMatch ==
    \/ CalculateMatchScore
    \/ NextCandidate

SpecMatch == InitMatch /\ [][NextMatch]_vars

-----------------------------------------------------------------------------
(* POST /matching: find_optimal_matches (geo_routes.py) over the location  *)
(* directory read by FirebaseHelper.get_nearby_users (firebase_helpers.py).*)
(* The donor stands at latitude 0; users stand on the donor's meridian and *)
(* their latitude is given in tenths of a degree.  Distances are whole     *)
(* kilometres, scores are fractions, round(x, 2) yields hundredths.        *)

MaxUsers == 2

UserLocations == {<<>>, <<1>>, <<4>>, <<5>>}

UserRoles == {"ngo", "donor"}

UserCapacities == {<<>>, <<0>>, <<200>>}

UserDocs == [role : UserRoles, location : UserLocations, capacity : UserCapacities]

MatchingQuantities == {100, 300}

MatchingUrgencies == {"normal", "urgent"}

DirectoryStates == {"up", "down"}

\* 50.0, the radius find_optimal_matches passes to get_nearby_users
MatchingRadiusKm == 50

\* the documents of the collection, each with the uid it is stored under
WithUid(docs) ==
    [i \in 1..Len(docs) |->
        [uid |-> i, role |-> docs[i].role, location |-> docs[i].location,
         capacity |-> docs[i].capacity]]

\* the elements of s that satisfy keep, in order
RECURSIVE Filter(_, _)
Filter(s, keep) ==
    IF s = <<>> THEN <<>>
    ELSE (IF Head(s) \in keep THEN <<Head(s)>> ELSE <<>>) \o Filter(Tail(s), keep)

\* great-circle distance along a meridian, latitudes in tenths of a degree
haversine_distance(lat1, lat2) == (KmPerDegree * Abs(lat2 - lat1)) \div 10

\* calculate_distance of geo_routes.py: the same formula
geo_calculate_distance(lat1, lat2) == (KmPerDegree * Abs(lat2 - lat1)) \div 10

\* round(num / den, 2) in hundredths, ties to even (den > 0)
round2(num, den) ==
    LET q == (100 * num) \div den
        r == (100 * num) % den
    IN  IF 2 * r > den \/ (2 * r = den /\ q % 2 = 1) THEN q + 1 ELSE q

\* the stream raises when the directory is down: except Exception: return [];
\* a document at latitude 0 and longitude 0 is skipped
get_nearby_users(docs, state, lat, radius_km) ==
    IF state = "down"
    THEN [raised |-> "", users |-> <<>>]
    ELSE LET all == WithUid(docs)
             near == {u \in {all[i] : i \in 1..Len(all)} :
                         /\ u.location # <<>>
                         /\ u.location[1] # 0
                         /\ haversine_distance(lat, u.location[1]) <= radius_km}
             nearby == Filter(all, near)
             withDistance ==
                 [i \in 1..Len(nearby) |->
                     [uid |-> nearby[i].uid, role |-> nearby[i].role,
                      location |-> nearby[i].location,
                      capacity |-> nearby[i].capacity,
                      distance_km |-> haversine_distance(lat, nearby[i].location[1])]]
         IN  [raised |-> "",
              users |-> SortByKeys(withDistance,
                                   [i \in 1..Len(withDistance) |->
                                       withDistance[i].distance_km], FALSE)]

estimate_delivery_time(distance_km) ==
    IF distance_km < 5 THEN "15-30 minutes"
    ELSE IF distance_km < 15 THEN "30-60 minutes"
    ELSE IF distance_km < 30 THEN "1-2 hours"
    ELSE "2+ hours"

\* one entry of matches; match_score in hundredths
MatchEntry(ngo, distance, score) ==
    [ngo_id |-> ngo.uid, location |-> ngo.location, distance_km |-> distance,
     match_score |-> round2(score.num, score.den),
     estimated_delivery_time |-> estimate_delivery_time(distance),
     capacity |-> ngo.capacity]

\* matrix["ngo_i"]["ngo_j"] for i # j; the key "ngo_i" is absent from its own row
generate_distance_matrix(ms) ==
    [i \in 1..Len(ms) |->
        [j \in (1..Len(ms)) \ {i} |->
            geo_calculate_distance(ms[i].location[1], ms[j].location[1])]]

\* the first recommendation by its kind, then the markers that follow
generate_matching_recommendations(ms, request) ==
    IF ms = <<>> THEN <<"No nearby NGOs found">>
    ELSE LET best_match == ms[1]
         IN  (IF best_match.match_score > 8000 THEN <<"Excellent match found", "Proceed">>
              ELSE IF best_match.match_score > 6000 THEN <<"Good match found", "Consider">>
              ELSE <<"Consider expanding search radius">>)
             \o (IF best_match.distance_km > 20 THEN <<"Consider volunteer delivery">> ELSE <<>>)
             \o (IF request.urgency = "urgent" THEN <<"URGENT", "Consider multiple NGOs">> ELSE <<>>)

\* matches[0] if matches else None
optimal_match(ms) == IF ms # <<>> THEN <<ms[1]>> ELSE <<>>

\* matches[0] on an empty list raises IndexError, which the handler turns into 500
MatchingResponse_Unguarded(ms, request) ==
    IF ms = <<>> THEN HandlerError("IndexError")
    ELSE [status_code |-> 200,
          body |-> [matches |-> ms,
                    optimal_match |-> <<ms[1]>>,
                    distance_matrix |-> generate_distance_matrix(ms),
                    recommendations |-> generate_matching_recommendations(ms, request)]]

MatchingResponse(ms, request) ==
    [status_code |-> 200,
     body |-> [matches |-> ms,
               optimal_match |-> optimal_match(ms),
               distance_matrix |-> generate_distance_matrix(ms),
               recommendations |-> generate_matching_recommendations(ms, request)]]

\* nearby_ngos = get_nearby_users(...); ngo_users = [role == 'ngo']
GetNearbyNgos ==
    /\ pc = "fetch"
    /\ LET nearby_ngos == get_nearby_users(users, directory, 0, MatchingRadiusKm)
       IN  IF nearby_ngos.raised # ""
           THEN /\ matching_response' = HandlerError(nearby_ngos.raised)
                /\ pc' = "done"
                /\ UNCHANGED ngo_users
           ELSE /\ ngo_users' = Filter(nearby_ngos.users,
                                       {u \in {nearby_ngos.users[i] :
                                                  i \in 1..Len(nearby_ngos.users)} :
                                           u.role = "ngo"})
                /\ pc' = "score"
                /\ UNCHANGED matching_response
    /\ fetch_calls' = fetch_calls + 1
    /\ UNCHANGED <<users, directory, matching_request, ngo_i, matches>>
    /\ UNCHANGED exceptMatching

\* one turn of: for ngo in ngo_users ('location' is in every nearby user)
ScoreNgo ==
    /\ pc = "score"
    /\ ngo_i < Len(ngo_users)
    /\ LET ngo == At(ngo_users, ngo_i)
           distance == geo_calculate_distance(0, ngo.location[1])
           score == calculate_match_score(distance, matching_request.quantity,
                                          matching_request.urgency, ngo)
       IN  IF score.error # ""
           THEN /\ matching_response' = HandlerError(score.error)
                /\ pc' = "done"
                /\ UNCHANGED <<matches, ngo_i>>
           ELSE /\ matches' = Append(matches, MatchEntry(ngo, distance, score))
                /\ ngo_i' = ngo_i + 1
                /\ UNCHANGED <<pc, matching_response>>
    /\ UNCHANGED <<users, directory, matching_request, fetch_calls, ngo_users>>
    /\ UNCHANGED exceptMatching

\* matches.sort(reverse=True); optimal_match; the response
SortAndRespond ==
    /\ pc = "score"
    /\ ~(ngo_i < Len(ngo_users))
    /\ matches' = SortByKeys(matches,
                             [i \in 1..Len(matches) |-> matches[i].match_score],
                             TRUE)
    /\ matching_response' = MatchingResponse(matches', matching_request)
    /\ pc' = "done"
    /\ UNCHANGED <<users, directory, matching_request, fetch_calls, ngo_users, ngo_i>>
    /\ UNCHANGED exceptMatching

InitMatching ==
    /\ pc = "fetch"
    /\ entry = "matching"
    /\ IdleRoute
    /\ match_args = NoMatch
    /\ match_score = NoMatch
    /\ users \in SeqsUpTo(UserDocs, MaxUsers)
    /\ directory \in DirectoryStates
    /\ matching_request \in [quantity : MatchingQuantities, urgency : MatchingUrgencies]
    /\ fetch_calls = 0
    /\ ngo_users = <<>>
    /\ ngo_i = 0
    /\ matches = <<>>
    /\ matching_response = NoResponse
    /\ IdleEfficiency
    /\ IdleAssign
    /\ IdleDonation

NextMatching ==
    \/ GetNearbyNgos
    \/ ScoreNgo
    \/ SortAndRespond

SpecMatching == InitMatching /\ [][NextMatching]_vars

-----------------------------------------------------------------------------
(* calculate_route_efficiency (volunteer_routes.py) as a function of its   *)
(* arguments: a route of itinerary entries, a distance in whole km and a   *)
(* time in hours given as the fraction <<numerator, denominator>>.  The    *)
(* result is the fraction num / den.                                       *)

MaxRouteLen == 3

EntryPriorities == {-3, 1, 5}

RouteEntries == [priority : EntryPriorities]

TotalDistances == {0, 10, 60}

TotalTimes == {<<0, 1>>, <<1, 2>>, <<12, 1>>}

CalculateRouteEfficiency ==
    /\ pc = "efficiency"
    /\ \E rt \in SeqsUpTo(RouteEntries, MaxRouteLen),
          distance \in TotalDistances, time \in TotalTimes :
          /\ efficiency_args' = [route |-> rt, distance |-> distance, time |-> time]
          /\ efficiency' = calculate_route_efficiency(rt, distance, time)
    /\ pc' = "rated"
    /\ UNCHANGED exceptEfficiency

NextRoute ==
    /\ pc = "rated"
    /\ pc' = "efficiency"
    /\ efficiency_args' = NoMatch
    /\ efficiency' = NoMatch
    /\ UNCHANGED exceptEfficiency

InitEfficiency ==
    /\ pc = "efficiency"
    /\ entry = "efficiency"
    /\ IdleRoute
    /\ match_args = NoMatch
    /\ match_score = NoMatch
    /\ IdleMatching
    /\ IdleEfficiency
    /\ IdleAssign
    /\ IdleDonation

NextEfficiency ==
    \/ CalculateRouteEfficiency
    \/ NextRoute

SpecEfficiency == InitEfficiency /\ [][NextEfficiency]_vars

-----------------------------------------------------------------------------
(* solve_assignment_problem (volunteer_routes.py) over a score matrix with *)
(* one row per volunteer and one column per task.  A volunteer or task is  *)
(* a record whose id is its position in the input list.                    *)

MaxVolunteers == 2

MaxTasks == 2

Scores == {-2, 10, 50, 90}

\* best_score = -1 before the first task is looked at
InitialBestScore == -1

Parties(n) == [k \in 1..n |-> [id |-> k - 1]]

\* the task that scores highest, whether or not it is already used
best_task_IgnoresUsed(row, used) ==
    LET open == {j \in 0..(Len(row) - 1) : At(row, j) > InitialBestScore}
    IN  IF open = {}
        THEN [best_task_index |-> -1, best_score |-> InitialBestScore]
        ELSE LET j == CHOOSE t \in open :
                          /\ \A u \in open : At(row, u) <= At(row, t)
                          /\ \A u \in open : u < t => At(row, u) < At(row, t)
             IN  [best_task_index |-> j, best_score |-> At(row, j)]

\* the inner loop: 'j not in used_tasks and matrix[i][j] > best_score'
\* keeps the first unused task of maximal score above -1
best_task(row, used) ==
    LET open == {j \in 0..(Len(row) - 1) :
                    j \notin used /\ At(row, j) > InitialBestScore}
    IN  IF open = {}
        THEN [best_task_index |-> -1, best_score |-> InitialBestScore]
        ELSE LET j == CHOOSE t \in open :
                          /\ \A u \in open : At(row, u) <= At(row, t)
                          /\ \A u \in open : u < t => At(row, u) < At(row, t)
             IN  [best_task_index |-> j, best_score |-> At(row, j)]

\* the chosen task is never recorded in used_tasks
AssignVolunteer_NoUsedUpdate ==
    /\ pc = "assign"
    /\ volunteer_i < Len(volunteers)
    /\ LET best == best_task(At(matrix, volunteer_i), used_tasks)
       IN  IF best.best_task_index # -1
           THEN /\ used_tasks' = used_tasks
                /\ assignments' = Append(assignments,
                       [volunteer_id |-> At(volunteers, volunteer_i).id,
                        task_id |-> At(tasks, best.best_task_index).id,
                        assignment_score |-> best.best_score])
           ELSE UNCHANGED <<used_tasks, assignments>>
    /\ volunteer_i' = volunteer_i + 1
    /\ UNCHANGED <<pc, entry, volunteers, tasks, matrix, assignment_response>>
    /\ UNCHANGED exceptAssign

\* one turn of: for i, volunteer in enumerate(volunteers)
AssignVolunteer ==
    /\ pc = "assign"
    /\ volunteer_i < Len(volunteers)
    /\ LET best == best_task(At(matrix, volunteer_i), used_tasks)
       IN  IF best.best_task_index # -1
           THEN /\ used_tasks' = used_tasks \cup {best.best_task_index}
                /\ assignments' = Append(assignments,
                       [volunteer_id |-> At(volunteers, volunteer_i).id,
                        task_id |-> At(tasks, best.best_task_index).id,
                        assignment_score |-> best.best_score])
           ELSE UNCHANGED <<used_tasks, assignments>>
    /\ volunteer_i' = volunteer_i + 1
    /\ UNCHANGED <<pc, entry, volunteers, tasks, matrix, assignment_response>>
    /\ UNCHANGED exceptAssign

\* the tasks whose id is the volunteer id of an assignment are left out
find_unassigned_tasks_ByVolunteer(assigned, all_tasks) ==
    LET assigned_task_ids == {assigned[k].volunteer_id : k \in 1..Len(assigned)}
    IN  Filter(all_tasks, {t \in {all_tasks[k] : k \in 1..Len(all_tasks)} :
                              t.id \notin assigned_task_ids})

\* [task for task in tasks if task['id'] not in assigned_task_ids]
find_unassigned_tasks(assigned, all_tasks) ==
    LET assigned_task_ids == {assigned[k].task_id : k \in 1..Len(assigned)}
    IN  Filter(all_tasks, {t \in {all_tasks[k] : k \in 1..Len(all_tasks)} :
                              t.id \notin assigned_task_ids})

\* total_score / len(assignments) as the fraction <<numerator, denominator>>
calculate_assignment_efficiency(assigned) ==
    IF assigned = <<>> THEN <<0, 1>>
    ELSE <<Sum([k \in 1..Len(assigned) |-> assigned[k].assignment_score]),
           Len(assigned)>>

generate_assignment_recommendations(assigned, unassigned) ==
    (IF Len(assigned) > 0
     THEN LET avg_score == calculate_assignment_efficiency(assigned)
          IN  IF avg_score[1] > 80 * avg_score[2]
              THEN <<"Excellent volunteer assignments!">>
              ELSE IF avg_score[1] > 60 * avg_score[2]
              THEN <<"Good volunteer assignments">>
              ELSE <<"Consider reassigning volunteers">>
     ELSE <<>>)
    \o (IF unassigned # <<>>
        THEN <<"tasks remain unassigned", "Consider recruiting additional volunteers">>
        ELSE <<>>)

VolunteerAssignmentResponse(assigned, all_tasks) ==
    LET unassigned_tasks == find_unassigned_tasks(assigned, all_tasks)
    IN  [status_code |-> 200,
         body |-> [assignments |-> assigned,
                   unassigned_tasks |-> unassigned_tasks,
                   total_efficiency |-> calculate_assignment_efficiency(assigned),
                   recommendations |->
                       generate_assignment_recommendations(assigned, unassigned_tasks)]]

\* return assignments, and the rest of assign_volunteers_to_tasks
AssignReturn ==
    /\ pc = "assign"
    /\ ~(volunteer_i < Len(volunteers))
    /\ assignment_response' = VolunteerAssignmentResponse(assignments, tasks)
    /\ pc' = "assigned"
    /\ UNCHANGED <<entry, volunteers, tasks, matrix, volunteer_i, used_tasks,
                   assignments>>
    /\ UNCHANGED exceptAssign

InitAssign ==
    /\ pc = "assign"
    /\ entry = "assign"
    /\ IdleRoute
    /\ match_args = NoMatch
    /\ match_score = NoMatch
    /\ IdleMatching
    /\ IdleEfficiency
    /\ IdleDonation
    /\ \E nv \in 0..MaxVolunteers, nt \in 0..MaxTasks :
          /\ volunteers = Parties(nv)
          /\ tasks = Parties(nt)
          /\ matrix \in [1..nv -> [1..nt -> Scores]]
    /\ volunteer_i = 0
    /\ used_tasks = {}
    /\ assignments = <<>>
    /\ assignment_response = NoResponse

NextAssign ==
    \/ AssignVolunteer
    \/ AssignReturn

SpecAssign == InitAssign /\ [][NextAssign]_vars

-----------------------------------------------------------------------------
(* Donations (donation_routes.py): create_donation, claim_donation and     *)
(* update_donation over the 'donations' and 'deliveries' collections.      *)
(* Firestore is reachable and assigns the ids 1, 2, ... to new donations.  *)
(* A claim_donation call reads the donation and the caller's user document *)
(* and then writes the donation and the delivery task, with no transaction *)
(* around them, so the calls of other workers can come in between; the     *)
(* other handlers are one step.                                            *)
(* Of a donation's fields lat, lng, foodType, imageUrl and freshnessScore  *)
(* are handled like qtyKg and left out.                                    *)

MaxDonations == 1

MaxCalls == 4

\* the 'users' collection: uid -> user_type
Callers == {"d1", "n1", "n2"}

user_type(uid) == IF uid = "d1" THEN "donor" ELSE "ngo"

Quantities_kg == {5, 7}

\* DonationUpdate: <<>> is a field that was not provided
DonationUpdates == [qtyKg : {<<>>, <<7>>}, status : {<<>>, <<"available">>, <<"matched">>}]

NoCall == [op |-> "none"]

DonationError(code, detail) == [status_code |-> code, body |-> [detail |-> detail]]

\* 'except Exception' of create_donation also catches its own HTTPException(403)
\* and raises HTTPException(500, "Failed to create donation: ...") in its place
create_donation_error(exc) == DonationError(500, "Failed to create donation")

NewDonation(donorId, qtyKg, now) ==
    [donorId |-> donorId, qtyKg |-> qtyKg, status |-> "available",
     createdAt |-> now, ngoId |-> <<>>, claimedAt |-> <<>>, updatedAt |-> <<>>]

CreateDonation ==
    /\ pc = "serve"
    /\ clock < MaxCalls
    /\ Len(donations) < MaxDonations
    /\ \E caller \in Callers, donorId \in Callers, qtyKg \in Quantities_kg :
          /\ calls[caller] = NoCall
          /\ IF donorId # caller
             THEN /\ LET error == create_donation_error(
                                        DonationError(403, "You can only create donations for yourself"))
                     IN  donation_response' =
                             [status_code |-> error.status_code, body |-> error.body,
                              request |-> [op |-> "create", caller |-> caller]]
                  /\ UNCHANGED donations
             ELSE /\ donations' = Append(donations, NewDonation(donorId, qtyKg, clock))
                  /\ donation_response' =
                         [status_code |-> 200,
                          body |-> [id |-> Len(donations'), donorId |-> donorId,
                                    qtyKg |-> qtyKg, status |-> "available"],
                          request |-> [op |-> "create", caller |-> caller]]
    /\ clock' = clock + 1
    /\ UNCHANGED <<pc, entry, deliveries, calls>>
    /\ UNCHANGED exceptDonation

\* the checks of claim_donation on what it read: the rejection, or none
claim_rejection(donation_id, uid) ==
    IF donation_id \notin 1..Len(donations)
    THEN DonationError(404, "Donation not found")
    ELSE IF donations[donation_id].status # "available"
    THEN DonationError(400, "Donation is not available")
    ELSE IF user_type(uid) # "ngo"
    THEN DonationError(403, "Only NGOs can claim donations")
    ELSE NoResponse

\* claim_donation up to its last read
ClaimRead ==
    /\ pc = "serve"
    /\ clock < MaxCalls
    /\ \E caller \in Callers, donation_id \in 1..MaxDonations :
          /\ calls[caller] = NoCall
          /\ LET rejection == claim_rejection(donation_id, caller)
             IN  IF rejection # NoResponse
                 THEN /\ donation_response' =
                             [status_code |-> rejection.status_code,
                              body |-> rejection.body,
                              request |-> [op |-> "claim", caller |-> caller,
                                           donation_id |-> donation_id]]
                      /\ UNCHANGED calls
                 ELSE /\ calls' = [calls EXCEPT ![caller] =
                                      [op |-> "claim", at |-> "update",
                                       donation_id |-> donation_id,
                                       donorId |-> donations[donation_id].donorId]]
                      /\ UNCHANGED donation_response
    /\ clock' = clock + 1
    /\ UNCHANGED <<pc, entry, donations, deliveries>>
    /\ UNCHANGED exceptDonation

claim_update_NoNgo(uid, now) ==
    [status |-> "matched", ngoId |-> <<>>, claimedAt |-> <<now>>]

\* donation_ref.update({'status': 'matched', 'ngoId': uid, 'claimedAt': now})
claim_update(uid, now) ==
    [status |-> "matched", ngoId |-> <<uid>>, claimedAt |-> <<now>>]

\* DocumentReference.update: the fields given replace those of the document
document_update(doc, fields) ==
    [f \in DOMAIN doc |-> IF f \in DOMAIN fields THEN fields[f] ELSE doc[f]]

delivery_task(donation_id, uid, donorId, now) ==
    [donationId |-> donation_id, ngoId |-> uid, donorId |-> donorId,
     status |-> "pending", createdAt |-> now]

\* claim_donation: donation_ref.update
ClaimUpdate ==
    /\ pc = "serve"
    /\ \E caller \in Callers :
          /\ calls[caller] # NoCall
          /\ calls[caller].at = "update"
          /\ donations' = [donations EXCEPT ![calls[caller].donation_id] =
                              document_update(@, claim_update(caller, clock))]
          /\ calls' = [calls EXCEPT ![caller].at = "add"]
    /\ UNCHANGED <<pc, entry, deliveries, clock, donation_response>>
    /\ UNCHANGED exceptDonation

\* claim_donation from db.collection('deliveries').add to its return
ClaimAdd ==
    /\ pc = "serve"
    /\ \E caller \in Callers :
          /\ calls[caller] # NoCall
          /\ calls[caller].at = "add"
          /\ LET call == calls[caller]
             IN  /\ deliveries' = Append(deliveries,
                                         delivery_task(call.donation_id, caller,
                                                       call.donorId, clock))
                 /\ donation_response' =
                        [status_code |-> 200,
                         body |-> [success |-> TRUE, donationId |-> call.donation_id,
                                   status |-> "matched"],
                         request |-> [op |-> "claim", caller |-> caller,
                                      donation_id |-> call.donation_id]]
          /\ calls' = [calls EXCEPT ![caller] = NoCall]
    /\ UNCHANGED <<pc, entry, donations, clock>>
    /\ UNCHANGED exceptDonation

\* update_data: the provided fields, and updatedAt, which is always added
build_update_data(donation_update, now) ==
    LET provided == {f \in DOMAIN donation_update : donation_update[f] # <<>>}
    IN  [f \in provided \cup {"updatedAt"} |->
            IF f = "updatedAt" THEN <<now>> ELSE donation_update[f][1]]

update_donation(donation_id, donation_update, uid, now) ==
    IF donation_id \notin 1..Len(donations)
    THEN [response |-> DonationError(404, "Donation not found"), donations |-> donations]
    ELSE IF donations[donation_id].donorId # uid
    THEN [response |-> DonationError(403, "You can only update your own donations"),
          donations |-> donations]
    ELSE LET update_data == build_update_data(donation_update, now)
         IN  IF DOMAIN update_data = {}
             THEN [response |-> DonationError(400, "No fields to update"),
                   donations |-> donations]
             ELSE LET updated == [donations EXCEPT ![donation_id] =
                                     document_update(@, update_data)]
                  IN  [response |->
                           [status_code |-> 200,
                            body |-> [id |-> donation_id,
                                      donorId |-> updated[donation_id].donorId,
                                      qtyKg |-> updated[donation_id].qtyKg,
                                      status |-> updated[donation_id].status]],
                       donations |-> updated]

UpdateDonation ==
    /\ pc = "serve"
    /\ clock < MaxCalls
    /\ \E caller \in Callers, donation_id \in 1..MaxDonations,
          donation_update \in DonationUpdates :
          /\ calls[caller] = NoCall
          /\ LET result == update_donation(donation_id, donation_update, caller, clock)
             IN  /\ donations' = result.donations
                 /\ donation_response' =
                        [status_code |-> result.response.status_code,
                         body |-> result.response.body,
                         request |-> [op |-> "update", caller |-> caller,
                                      donation_id |-> donation_id,
                                      donation_update |-> donation_update]]
    /\ clock' = clock + 1
    /\ UNCHANGED <<pc, entry, deliveries, calls>>
    /\ UNCHANGED exceptDonation

InitDonation ==
    /\ pc = "serve"
    /\ entry = "donation"
    /\ IdleRoute
    /\ match_args = NoMatch
    /\ match_score = NoMatch
    /\ IdleMatching
    /\ IdleEfficiency
    /\ IdleAssign
    /\ donations = <<>>
    /\ deliveries = <<>>
    /\ clock = 0
    /\ calls = [c \in Callers |-> NoCall]
    /\ donation_response = NoResponse

NextDonation ==
    \/ CreateDonation
    \/ ClaimRead
    \/ ClaimUpdate
    \/ ClaimAdd
    \/ UpdateDonation

SpecDonation == InitDonation /\ [][NextDonation]_vars

-----------------------------------------------------------------------------
(* Properties of the route optimisation pipeline *)

PrimaryFailed == SolverOutcome(locations, vehicle_capacity, ortools) # "solution"

FromFallback == "route" \in DOMAIN solution

FromPrimary == "objective_value" \in DOMAIN solution /\ ~FromFallback

Succeeded == response.status_code = 200

Failed == response.status_code >= 400

\* every stop index 1..n occurs exactly once in r, which starts and ends at 0
IsTour(r, n) ==
    /\ r # <<>>
    /\ r[1] = 0
    /\ r[Len(r)] = 0
    /\ \A stop \in 1..n : Cardinality({k \in 1..Len(r) : r[k] = stop}) = 1

\* C1: whichever strategy produced it, the route index sequence handed to the
\* itinerary builder starts at index 0, ends at index 0 and contains every
\* stop index 1..N exactly once.
C1_RouteIsTour ==
    (entry = "handler" /\ route_indices # <<>>) => IsTour(route_indices, Len(locations))

VisitsAllStops(resp) ==
    \A stop \in 1..Len(locations) :
        \E k \in 1..Len(resp.body.optimized_route) :
            resp.body.optimized_route[k].location_id = stop

StrategyMarkers == {"strategy", "solver", "fallback", "is_fallback", "degraded"}

StrategyIndicated(resp) == DOMAIN resp.body \cap StrategyMarkers # {}

\* C2: a call to optimize_volunteer_route ends either in a success response
\* whose route visits every requested stop (flagged when it comes from the
\* fallback) or in an explicit validation error.
C2_FeasibleRouteOrValidationError ==
    (entry = "handler" /\ pc = "done") =>
        \/ /\ Succeeded
           /\ VisitsAllStops(response)
           /\ FromFallback => StrategyIndicated(response)
        \/ /\ Failed
           /\ response.body.detail = ValidationError

PrefixDemand(r, k) == Sum([i \in 1..k |-> demand_callback(locations, r[i])])

C4_FallbackIndicated ==
    (entry = "handler" /\ pc = "done" /\ FromFallback) => StrategyIndicated(response)

\* C5: a request with fewer than 2 stops is rejected before the distance
\* matrix is built or the solver is invoked, and the caller receives a
\* client (4xx) error.
C5_TooFewStopsIsClientError ==
    (entry = "handler" /\ pc = "done" /\ Len(locations) < 2) =>
        /\ distance_matrix = <<>>
        /\ primary_calls = 0
        /\ mock_calls = 0
        /\ response.status_code \in 400..499

\* C6: for exactly one stop the solver yields the route [start, stop, start]
\* and the total distance computed for it is 2 x distance(start, stop).
C6_SingleStopRoundTrip ==
    (entry = "solver" /\ pc = "done" /\ Len(locations) = 1) =>
        /\ route_indices = <<0, 1, 0>>
        /\ response.body.total_distance
               = 2 * calculate_distance(start_location.latitude, locations[1].latitude)

C8_FallbackExactlyOnce ==
    /\ primary_calls <= 1
    /\ mock_calls <= 1
    /\ (entry = "handler" /\ primary_calls = 1 /\ PrimaryFailed) =>
           /\ mock_calls = 1
           /\ ~(Failed /\ response.body.detail = "SolverError")

C8_Witness ==
    /\ entry = "handler"
    /\ pc = "done"
    /\ ortools = "raises"
    /\ primary_calls = 1
    /\ mock_calls = 1
    /\ IsTour(solution.route, Len(locations))

-----------------------------------------------------------------------------
(* Properties of the match score *)

\* C9: the match score returned lies in [0,100] for every quantity, candidate
\* capacity, urgency and distance.
C9_ScoreWithinRange ==
    (pc = "scored" /\ match_score.error = "") =>
        /\ 0 <= match_score.num
        /\ match_score.num <= 100 * match_score.den

\* the specified score over the denominator 100 * |capacity|
SpecifiedScore(distance, quantity, urgency, capacity) ==
    LET sign == IF capacity > 0 THEN 1 ELSE -1
        den == sign * capacity
        distance_score == Max(0, 100 - 2 * distance)
        capacity_score == Min(100 * den, 100 * quantity * sign)
        multiplier == CASE urgency = "low" -> 8
                        [] urgency = "normal" -> 10
                        [] urgency = "high" -> 12
                        [] urgency = "urgent" -> 15
        raw == (distance_score * 4 * den + capacity_score * 6) * multiplier
    IN  [num |-> Max(0, Min(100 * (100 * den), raw)), den |-> 100 * den]

ScenarioB ==
    [distance |-> 10, quantity |-> 100, urgency |-> "urgent",
     ngo |-> [capacity |-> <<200>>]]

\* C10: the match score equals clamp((distance_score*0.4 + capacity_score*0.6)
\* * urgency_multiplier) with distance_score = max(0, 100 - 2*distance),
\* capacity_score = min(100, 100*quantity/capacity) and multiplier
\* 0.8/1.0/1.2/1.5 for low/normal/high/urgent; quantity 100, urgent, 10 km,
\* capacity 200 gives 93.0.
C10_ScoreFormula ==
    (/\ pc = "scored"
     /\ match_args.urgency \in {"low", "normal", "high", "urgent"}
     /\ match_args.ngo.capacity # <<>>
     /\ match_args.ngo.capacity # <<0>>) =>
        LET spec == SpecifiedScore(match_args.distance, match_args.quantity,
                                   match_args.urgency, match_args.ngo.capacity[1])
        IN  /\ match_score.error = ""
            /\ match_score.num * spec.den = spec.num * match_score.den
            /\ match_args = ScenarioB => match_score.num = 93 * match_score.den

-----------------------------------------------------------------------------
(* Properties of POST /matching *)

MatchingDone == entry = "matching" /\ pc = "done"

MatchingSucceeded == MatchingDone /\ matching_response.status_code = 200

\* C11: the matches list returned by find_optimal_matches is ordered by
\* non-increasing match_score, and optimal_match is its first element when
\* the list is non-empty.
C11_MatchesRankedByScore ==
    MatchingSucceeded =>
        LET ms == matching_response.body.matches
        IN  /\ \A i, j \in 1..Len(ms) :
                   i < j => ms[i].match_score >= ms[j].match_score
            /\ ms # <<>> => matching_response.body.optimal_match = <<ms[1]>>

\* the farther of two NGOs scored strictly higher and was ranked first
C11_Witness ==
    /\ MatchingSucceeded
    /\ Len(matching_response.body.matches) >= 2
    /\ LET ms == matching_response.body.matches
       IN  /\ ms[1].match_score > ms[2].match_score
           /\ ms[1].distance_km > ms[2].distance_km
           /\ matching_response.body.optimal_match = <<ms[1]>>

\* C12: when the candidate set is empty the matching result is an empty
\* matches list with no optimal match, reported as a success without error.
C12_EmptyCandidatesSucceed ==
    (MatchingDone /\ ngo_users = <<>>) =>
        /\ matching_response.status_code = 200
        /\ matching_response.body.matches = <<>>
        /\ matching_response.body.optimal_match = <<>>

\* the directory answered, held users, and none of them was an NGO in reach
C12_Witness ==
    /\ MatchingDone
    /\ directory = "up"
    /\ users # <<>>
    /\ ngo_users = <<>>
    /\ matching_response.status_code = 200
    /\ matching_response.body.optimal_match = <<>>

\* C13: when the location directory cannot be reached the matching call
\* reports an error, is not retried, and never answers with a success that
\* carries an empty list.
C13_DirectoryFailureReported ==
    (MatchingDone /\ directory = "down") =>
        /\ matching_response.status_code # 200
        /\ fetch_calls = 1

-----------------------------------------------------------------------------
(* Properties of the route metrics *)

\* C14: the route efficiency score lies in [0, 100] for every non-empty
\* route and every non-negative total distance and duration.
C14_EfficiencyWithinRange ==
    (/\ pc = "rated"
     /\ efficiency_args.route # <<>>
     /\ efficiency_args.distance >= 0
     /\ efficiency_args.time[1] >= 0) =>
        /\ efficiency.error = ""
        /\ 0 <= efficiency.num
        /\ efficiency.num <= 100 * efficiency.den

\* a route of high priority over a short distance: unclamped it would rate 180
C14_Witness ==
    /\ pc = "rated"
    /\ efficiency_args = [route |-> <<[priority |-> 5]>>, distance |-> 0,
                          time |-> <<0, 1>>]
    /\ efficiency.error = ""
    /\ efficiency.num = 100 * efficiency.den

\* C15: the matrix create_distance_matrix builds over the start and N stops
\* is square of size N + 1, has a zero diagonal and is symmetric.
C15_MatrixSquareSymmetric ==
    (entry = "handler" /\ pc \notin {"validate", "matrix"} /\ distance_matrix # <<>>) =>
        LET n == Len(locations) + 1
        IN  /\ Len(distance_matrix) = n
            /\ \A i \in 1..n :
                   /\ Len(distance_matrix[i]) = n
                   /\ distance_matrix[i][i] = 0
                   /\ \A j \in 1..n : distance_matrix[i][j] = distance_matrix[j][i]

\* a matrix over three places with three different positive distances
C15_Witness ==
    /\ entry = "handler"
    /\ pc = "solve"
    /\ Len(distance_matrix) >= 3
    /\ distance_matrix[1][2] > 0
    /\ distance_matrix[2][3] > distance_matrix[1][2]
    /\ distance_matrix[1][3] > 0
    /\ distance_matrix[1][3] # distance_matrix[1][2]
    /\ distance_matrix[3][2] = distance_matrix[2][3]

\* the legs of a route, by the stop indices it visits
LegsBetween(rt, m, from, to) ==
    Sum([k \in 1..(to - from) |->
            At(At(m, At(rt, from + k - 1)), At(rt, from + k))])

\* C16: the total distance of a route equals the sum, over consecutive route
\* positions k, of matrix[route[k]][route[k+1]], the leg back to the start
\* included.
C16_TotalDistanceSumsVisitedLegs ==
    (entry = "solver" /\ pc = "done") =>
        response.body.total_distance
            = LegsBetween(route_indices, distance_matrix, 0, Len(route_indices) - 1)

\* C17: the arrival time at route position k is 09:00 plus the travel time,
\* at 30 km/h (2 minutes per km), over the legs from position 0 to position
\* k between the stop indices the route visits.
C17_ArrivalTimeFollowsVisitedLegs ==
    (entry = "solver" /\ pc = "done") =>
        \A k \in 0..(Len(route_indices) - 1) :
            LET arrival == At(response.body.arrival_times, k)
                minutes == (60 \div AssumedSpeedKmh)
                               * LegsBetween(route_indices, distance_matrix, 0, k)
            IN  /\ arrival.error = ""
                /\ arrival.hour * 60 + arrival.minute = 9 * 60 + minutes

-----------------------------------------------------------------------------
(* Properties of the fallback heuristic *)

\* the stops not yet on route r before its position k (positions from 1)
UnvisitedBefore(r, k) ==
    {stop \in 1..Len(locations) : \A j \in 1..(k - 1) : r[j] # stop}

\* position k of r holds an unvisited stop nearest to the stop before it
NearestChosen(r, k) ==
    /\ r[k] \in UnvisitedBefore(r, k)
    /\ \A stop \in UnvisitedBefore(r, k) :
           At(At(distance_matrix, r[k - 1]), r[k])
               <= At(At(distance_matrix, r[k - 1]), stop)

\* C18: the fallback heuristic starts at index 0, appends at each step an
\* unvisited stop of minimal distance from the current one until none is
\* left, then appends index 0; its loop ends after exactly N selections.
C18_FallbackNearestNeighbour ==
    /\ (entry = "solver" /\ pc = "mock") =>
           /\ route[1] = 0
           /\ Len(route) - 1 + Len(unvisited) = Len(locations)
           /\ \A k \in 2..Len(route) : NearestChosen(route, k)
    /\ (entry = "solver" /\ pc = "solved" /\ FromFallback) =>
           /\ Len(solution.route) = Len(locations) + 2
           /\ solution.route[1] = 0
           /\ solution.route[Len(solution.route)] = 0
           /\ \A k \in 2..(Len(locations) + 1) : NearestChosen(solution.route, k)
           /\ unvisited = <<>>

\* three stops at latitudes 2, 1, -1: the nearest-first order is 2, 1, 3
C18_Witness ==
    /\ entry = "solver"
    /\ pc = "solved"
    /\ FromFallback
    /\ Len(locations) = 3
    /\ solution.route = <<0, 2, 1, 3, 0>>

\* C19: when several unvisited stops are equally near the current stop, the
\* fallback heuristic selects the one of lowest stop index, at every step.
C19_TieTakesLowestIndex ==
    (entry = "solver" /\ pc \in {"mock", "solved"} /\ route # <<>>) =>
        \A k \in 2..Len(route) :
            route[k] # 0 =>
                \A stop \in UnvisitedBefore(route, k) :
                    At(At(distance_matrix, route[k - 1]), stop)
                        = At(At(distance_matrix, route[k - 1]), route[k])
                    => route[k] <= stop

\* stops 1 and 3 were equally near stop 2, and stop 1 was taken
C19_Witness ==
    /\ entry = "solver"
    /\ pc = "mock"
    /\ Len(locations) = 3
    /\ route = <<0, 2, 1>>
    /\ distance_matrix[3][2] = distance_matrix[3][4]
    /\ distance_matrix[1][3] < distance_matrix[1][2]

-----------------------------------------------------------------------------
(* Properties of the volunteer-to-task assignment *)

AssignDone == entry = "assign" /\ pc = "assigned"

\* the score of volunteer v (a row) for task t (a column), both from 0
ScoreOf(v, t) == At(At(matrix, v), t)

\* the volunteers given to the tasks before task t
VolunteersUsedBefore(t) ==
    {assignments[k].volunteer_id :
        k \in {n \in 1..Len(assignments) : assignments[n].task_id < t}}

TasksUsedBefore(k) == {assignments[n].task_id : n \in 1..(k - 1)}

-----------------------------------------------------------------------------
(* Properties of the alternative routes and of the caller's stop list *)

\* the orders in which n stops can be listed
Orders(n) == {f \in [1..n -> 1..n] : \A a, b \in 1..n : a # b => f[a] # f[b]}

\* rt is the start followed by the stops in the order f
ListsStopsInOrder(rt, f) ==
    /\ Len(rt) = Len(locations) + 1
    /\ rt[1] = AlternativeEntry(start_location)
    /\ \A k \in 1..Len(locations) : rt[k + 1] = AlternativeEntry(locations[f[k]])

AlternativesGiven == entry = "handler" /\ pc = "done" /\ Succeeded

\* C21: the priority-first alternative route lists the start followed by all
\* stops in non-increasing priority, stops of equal priority in the relative
\* order of the input list.
C21_PriorityFirstStable ==
    AlternativesGiven =>
        \E f \in Orders(Len(locations)) :
            /\ ListsStopsInOrder(response.body.alternative_routes[1].route, f)
            /\ \A a, b \in 1..Len(locations) :
                   a < b =>
                       /\ locations[f[a]].priority >= locations[f[b]].priority
                       /\ locations[f[a]].priority = locations[f[b]].priority
                              => f[a] < f[b]

\* two stops of priority 1 at different places, then one of priority 5
C21_Witness ==
    /\ AlternativesGiven
    /\ Len(locations) = 3
    /\ locations[1].priority = 1
    /\ locations[2].priority = 1
    /\ locations[3].priority = 5
    /\ locations[1].latitude = 2
    /\ locations[2].latitude = -1
    /\ locations[3].latitude = 1
    /\ response.body.alternative_routes[1].route
           = <<[latitude |-> 0], [latitude |-> 1], [latitude |-> 2], [latitude |-> -1]>>

\* C22: the distance-first alternative route lists the start followed by all
\* stops in non-decreasing distance from the start, each input stop exactly
\* once, also when stops have identical field values.
C22_DistanceFirstComplete ==
    AlternativesGiven =>
        \E f \in Orders(Len(locations)) :
            /\ ListsStopsInOrder(response.body.alternative_routes[2].route, f)
            /\ \A a, b \in 1..Len(locations) :
                   a < b => At(At(distance_matrix, 0), f[a])
                                <= At(At(distance_matrix, 0), f[b])

\* a far stop followed by two identical near stops
C22_Witness ==
    /\ AlternativesGiven
    /\ Len(locations) = 3
    /\ locations[1].latitude = 2
    /\ locations[2].latitude = 1
    /\ locations[3] = locations[2]
    /\ response.body.alternative_routes[2].route
           = <<[latitude |-> 0], [latitude |-> 1], [latitude |-> 1], [latitude |-> 2]>>

\* C23: route solving, itinerary generation and alternative-route generation
\* leave the caller's stop list as it was: same stops, same order, same
\* field values.
C23_StopListUnchanged == [][locations' = locations]_vars

\* a request served with alternatives in another order than the input
C23_Witness ==
    /\ AlternativesGiven
    /\ Len(locations) = 2
    /\ locations[1].priority < locations[2].priority
    /\ locations[1].latitude = 2
    /\ locations[2].latitude = 1
    /\ response.body.alternative_routes[1].route
           = <<[latitude |-> 0], [latitude |-> 1], [latitude |-> 2]>>

\* C24: for a route of at least 3 positions over a matrix of real-valued
\* distances, calculate_arrival_time yields a well-formed HH:MM value at
\* every position, so generate_optimized_route emits one itinerary entry per
\* route index and the request succeeds.
C24_ArrivalTimesWellFormed ==
    (entry = "handler" /\ pc = "done" /\ Len(route_indices) >= 3) =>
        /\ Succeeded
        /\ Len(response.body.optimized_route) = Len(route_indices)
        /\ \A k \in 1..Len(response.body.optimized_route) :
               /\ response.body.optimized_route[k].arrival_time[1] \in 0..23
               /\ response.body.optimized_route[k].arrival_time[2] \in 0..59

-----------------------------------------------------------------------------
(* Further properties of the volunteer-to-task assignment *)

\* C25: in the result of solve_assignment_problem no task is assigned to
\* more than one volunteer and no volunteer appears in more than one
\* assignment.
C25_AssignmentsAreOneToOne ==
    (entry = "assign" /\ pc \in {"assign", "assigned"}) =>
        \A k, n \in 1..Len(assignments) :
            k # n => /\ assignments[k].task_id # assignments[n].task_id
                     /\ assignments[k].volunteer_id # assignments[n].volunteer_id

\* both volunteers scored the same task highest, and got different tasks
C25_Witness ==
    /\ AssignDone
    /\ Len(assignments) = 2
    /\ ScoreOf(0, 0) > ScoreOf(0, 1)
    /\ ScoreOf(1, 0) > ScoreOf(1, 1)
    /\ assignments[1].task_id = 0
    /\ assignments[2].task_id = 1

\* C26: solve_assignment_problem leaves a volunteer without a task only when
\* every task is already used by an earlier volunteer: the number of
\* assignments is min(number of volunteers, number of tasks) for every score
\* matrix, scores at or below -1 included.
C26_AssignmentCountIsMinimum ==
    AssignDone => Len(assignments) = Min(Len(volunteers), Len(tasks))

\* C27: for tasks of pairwise distinct ids, the assigned tasks and
\* unassigned_tasks partition the input tasks: each task is the task of
\* exactly one assignment or is in unassigned_tasks, never both, never
\* neither.
C27_TasksPartitioned ==
    (/\ AssignDone
     /\ \A a, b \in 1..Len(tasks) : a # b => tasks[a].id # tasks[b].id) =>
        LET unassigned == assignment_response.body.unassigned_tasks
            given(t) == {k \in 1..Len(assignments) : assignments[k].task_id = t.id}
            left(t) == {k \in 1..Len(unassigned) : unassigned[k] = t}
        IN  /\ \A k \in 1..Len(tasks) :
                   \/ Cardinality(given(tasks[k])) = 1 /\ left(tasks[k]) = {}
                   \/ given(tasks[k]) = {} /\ Cardinality(left(tasks[k])) = 1
            /\ \A k \in 1..Len(unassigned) :
                   \E n \in 1..Len(tasks) : tasks[n] = unassigned[k]

\* one volunteer, two tasks: the second task is taken, the first is left
C27_Witness ==
    /\ AssignDone
    /\ Len(volunteers) = 1
    /\ Len(tasks) = 2
    /\ Len(assignments) = 1
    /\ assignments[1].task_id = 1
    /\ assignment_response.body.unassigned_tasks = <<tasks[1]>>

-----------------------------------------------------------------------------
(* Properties of the donation handlers *)

DeliveriesOf(donation_id) ==
    {i \in DOMAIN deliveries : deliveries[i].donationId = donation_id}

\* C28: after any sequence or interleaving of create_donation, claim_donation
\* and update_donation calls, every donation has at most one delivery task,
\* that is, has been claimed successfully at most once.
C28_AtMostOneDeliveryPerDonation ==
    \A donation_id \in DOMAIN donations :
        Cardinality(DeliveriesOf(donation_id)) <= 1

\* this step is a claim_donation call that was rejected
ClaimRejectedStep ==
    /\ clock' = clock + 1
    /\ calls' = calls
    /\ "request" \in DOMAIN donation_response'
    /\ donation_response'.request.op = "claim"
    /\ donation_response'.status_code \in {400, 403, 404}

\* this step is the donation update of caller's claim_donation call
ClaimUpdateStep(caller) ==
    /\ calls[caller] # NoCall
    /\ calls[caller].at = "update"
    /\ calls'[caller] # calls[caller]

\* this step is the end of caller's claim_donation call
ClaimAddStep(caller) ==
    /\ calls[caller] # NoCall
    /\ calls[caller].at = "add"
    /\ calls'[caller] = NoCall

ClaimPastUpdate(donation_id) ==
    \E caller \in Callers :
        /\ calls[caller] # NoCall
        /\ calls[caller].at = "add"
        /\ calls[caller].donation_id = donation_id

C29_Step ==
    /\ ClaimRejectedStep => donations' = donations /\ deliveries' = deliveries
    /\ \A caller \in Callers :
          /\ ClaimUpdateStep(caller) =>
                LET donation_id == calls[caller].donation_id
                IN  /\ donations'[donation_id].status = "matched"
                    /\ donations'[donation_id].ngoId = <<caller>>
                    /\ donations'[donation_id].donorId = donations[donation_id].donorId
                    /\ donations'[donation_id].qtyKg = donations[donation_id].qtyKg
                    /\ \A other \in DOMAIN donations \ {donation_id} :
                          donations'[other] = donations[other]
                    /\ DOMAIN donations' = DOMAIN donations
                    /\ deliveries' = deliveries
          /\ ClaimAddStep(caller) =>
                LET donation_id == calls[caller].donation_id
                IN  /\ donations' = donations
                    /\ Len(deliveries') = Len(deliveries) + 1
                    /\ SubSeq(deliveries', 1, Len(deliveries)) = deliveries
                    /\ deliveries'[Len(deliveries')].donationId = donation_id
                    /\ deliveries'[Len(deliveries')].ngoId = caller
                    /\ deliveries'[Len(deliveries')].status = "pending"
                    /\ donation_response'.status_code = 200
    /\ \A donation_id \in DOMAIN donations' :
          (/\ donations'[donation_id].status = "matched"
           /\ donations'[donation_id].claimedAt # <<>>
           /\ ~ClaimPastUpdate(donation_id)') => DeliveriesOf(donation_id)' # {}

OwnerUpdateWithNoFieldStep ==
    /\ clock' = clock + 1
    /\ "request" \in DOMAIN donation_response'
    /\ donation_response'.request.op = "update"
    /\ donation_response'.request.donation_id \in DOMAIN donations
    /\ donations[donation_response'.request.donation_id].donorId =
           donation_response'.request.caller
    /\ \A f \in DOMAIN donation_response'.request.donation_update :
          donation_response'.request.donation_update[f] = <<>>

\* C30: an update_donation call by the owning donor that provides no
\* updatable field is rejected with the 400 'No fields to update' error
\* and leaves the donation document unchanged.
C30_EmptyUpdateRejected ==
    [][OwnerUpdateWithNoFieldStep =>
          /\ donation_response'.status_code = 400
          /\ donation_response'.body.detail = "No fields to update"
          /\ donations' = donations]_vars

====
